---- MODULE Spec2Model ----
(***************************************************************************)
(* GCodeParser (dt_3d_printer/gcode_processor/gcode_parser.py) as a state  *)
(* machine.                                                                *)
(*                                                                         *)
(* Text is a sequence of one-character strings, so that strip, split,      *)
(* startswith and the parameter regex are computed character by character. *)
(* Floats are integers counting tenths: "2.5" is 25, "10" is 100.  The     *)
(* numerals of the line sets below have at most one fractional digit, for  *)
(* which the representation is exact; sums stay far from the range where  *)
(* a 64-bit float rounds, overflows or becomes NaN.                        *)
(*                                                                         *)
(* parse_gcode reads its lines in order and looks at the whole text only   *)
(* in the test `not gcode`, so the text is revealed one line per step:     *)
(* `lines` is the part of gcode.split("\n") read so far.                   *)
(***************************************************************************)
EXTENDS Integers, Sequences, FiniteSets, TLC

VARIABLES self, lines, line_num, pc, err, coordinates

vars == <<self, lines, line_num, pc, err, coordinates>>

\* Most lines of one input text.
MaxLines == 4

\* `err` and `coordinates` hold what the caller has received: nothing, or one value.
Nothing == <<>>

----------------------------------------------------------------------------
\* Characters and the str methods the parser calls.

Whitespace == {" ", "\t", "\r"}

Digits == {"0", "1", "2", "3", "4", "5", "6", "7", "8", "9"}

DigitVal(c) == CASE c = "0" -> 0 [] c = "1" -> 1 [] c = "2" -> 2 [] c = "3" -> 3
                 [] c = "4" -> 4 [] c = "5" -> 5 [] c = "6" -> 6 [] c = "7" -> 7
                 [] c = "8" -> 8 [] c = "9" -> 9

\* s[i], or "" past either end.
At(s, i) == IF i \in 1..Len(s) THEN s[i] ELSE ""

\* Index of the first character of s at or after i that is not in cs (Len(s)+1 if none).
RECURSIVE SkipFwd(_, _, _)
SkipFwd(s, i, cs) == IF i <= Len(s) /\ s[i] \in cs THEN SkipFwd(s, i + 1, cs) ELSE i

\* Index of the last character of s at or before i that is not in cs (0 if none).
RECURSIVE SkipBack(_, _, _)
SkipBack(s, i, cs) == IF i >= 1 /\ s[i] \in cs THEN SkipBack(s, i - 1, cs) ELSE i

\* str.strip()
strip(s) == SubSeq(s, SkipFwd(s, 1, Whitespace), SkipBack(s, Len(s), Whitespace))

\* str.lstrip(chars)
lstrip(s, cs) == SubSeq(s, SkipFwd(s, 1, cs), Len(s))

\* str.startswith(prefix)
startswith(s, p) == Len(s) >= Len(p) /\ SubSeq(s, 1, Len(p)) = p

\* Index of the first occurrence of character c in s at or after i (Len(s)+1 if none).
RECURSIVE Find(_, _, _)
Find(s, c, i) == IF i > Len(s) \/ s[i] = c THEN i ELSE Find(s, c, i + 1)

Contains(s, c) == Find(s, c, 1) <= Len(s)

\* s.split(c)[0]
SplitFirst(s, c) == SubSeq(s, 1, Find(s, c, 1) - 1)

\* s.split(c)[1], for s that contains c
SplitSecond(s, c) == LET a == Find(s, c, 1) IN SubSeq(s, a + 1, Find(s, c, a + 1) - 1)

\* Mutant: the value is cut at the next separator.
SplitRest_Segment(s, c) == LET a == Find(s, c, 1) IN SubSeq(s, a + 1, Find(s, c, a + 1) - 1)

\* s.split(c, 1)[1], for s that contains c
SplitRest(s, c) == SubSeq(s, Find(s, c, 1) + 1, Len(s))

\* Value of a run of decimal digits.
RECURSIVE DigitsValue(_)
DigitsValue(s) == IF s = <<>> THEN 0 ELSE 10 * DigitsValue(SubSeq(s, 1, Len(s) - 1)) + DigitVal(s[Len(s)])

AllDigits(s) == s # <<>> /\ \A i \in 1..Len(s) : s[i] \in Digits

\* int(s): surrounding whitespace and one sign are accepted; anything else is a
\* ValueError, reported as ok = FALSE.
int(s) == LET t == strip(s)
              signed == At(t, 1) \in {"+", "-"}
              d == IF signed THEN SubSeq(t, 2, Len(t)) ELSE t
          IN IF AllDigits(d)
             THEN [ok |-> TRUE, value |-> IF At(t, 1) = "-" THEN 0 - DigitsValue(d) ELSE DigitsValue(d)]
             ELSE [ok |-> FALSE, value |-> 0]

\* float(s) in tenths, for a numeral the parameter regex matched:
\* [-+]? digits* .? digits+
float(s) == LET signed == At(s, 1) \in {"+", "-"}
                u == IF signed THEN SubSeq(s, 2, Len(s)) ELSE s
                dot == Find(u, ".", 1)
                whole == DigitsValue(SubSeq(u, 1, dot - 1))
                tenth == IF dot < Len(u) THEN DigitVal(u[dot + 1]) ELSE 0
                mag == 10 * whole + tenth
            IN IF At(s, 1) = "-" THEN 0 - mag ELSE mag

\* float(s) returns for s rather than raising ValueError.  Of the characters a
\* numeral of the parameter regex can hold (sign, digits, point) float accepts
\* an optional sign, then digits with an optional point among them, one digit
\* at least.
IsFloatLiteral(s) == LET signed == At(s, 1) \in {"+", "-"}
                         u == IF signed THEN SubSeq(s, 2, Len(s)) ELSE s
                     IN /\ \E i \in 1..Len(u) : u[i] \in Digits
                        /\ \A i \in 1..Len(u) : u[i] \in Digits \cup {"."}
                        /\ Cardinality({i \in 1..Len(u) : u[i] = "."}) <= 1

----------------------------------------------------------------------------
\* _parse_params: re.findall("([XYZEFS])([-+]?[0-9]*\.?[0-9]+)", command), then
\* a dict built in match order, so a later match of a letter replaces an earlier one.

AxisLetters == {"X", "Y", "Z", "E", "F", "S"}

\* Mutant: the numeral may have no digit after the sign or the point.
MatchEnd_Loose(s, i) == LET j == IF At(s, i + 1) \in {"+", "-"} THEN i + 2 ELSE i + 1
                            d == SkipFwd(s, j, Digits)
                        IN IF At(s, i) \notin AxisLetters THEN 0
                           ELSE IF At(s, d) = "." THEN SkipFwd(s, d + 1, Digits) - 1
                           ELSE d - 1

\* Last index of the numeral the regex matches after the axis letter at i, or 0
\* when there is no match at i.  Greedy: the longest digit run, then a point
\* followed by digits if there is one.
MatchEnd(s, i) == LET j == IF At(s, i + 1) \in {"+", "-"} THEN i + 2 ELSE i + 1
                      d == SkipFwd(s, j, Digits)
                  IN IF At(s, i) \notin AxisLetters THEN 0
                     ELSE IF At(s, d) = "." /\ At(s, d + 1) \in Digits THEN SkipFwd(s, d + 1, Digits) - 1
                     ELSE IF d > j THEN d - 1
                     ELSE 0

\* The matches from index i on, left to right, not overlapping.
RECURSIVE FindAll(_, _)
FindAll(s, i) == IF i > Len(s) THEN <<>>
                 ELSE LET e == MatchEnd(s, i)
                      IN IF e = 0 THEN FindAll(s, i + 1)
                         ELSE <<[axis |-> s[i], value |-> SubSeq(s, i + 1, e)]>> \o FindAll(s, e + 1)

\* The dict comprehension of _parse_params raises: float(value) fails for one
\* of the matches.
FloatFails(command) == LET ms == FindAll(command, 1)
                       IN \E k \in 1..Len(ms) : ~IsFloatLiteral(ms[k].value)

\* Mutant: the first match decides.
LastMatch_First(ms, a) == CHOOSE k \in 1..Len(ms) : ms[k].axis = a /\ \A m \in 1..(k - 1) : ms[m].axis # a

\* Index of the match that decides axis a: the last one.
LastMatch(ms, a) == CHOOSE k \in 1..Len(ms) : ms[k].axis = a /\ \A m \in (k + 1)..Len(ms) : ms[m].axis # a

_parse_params(command) == LET ms == FindAll(command, 1)
                              present == {ms[k].axis : k \in 1..Len(ms)}
                          IN [a \in present |-> float(ms[LastMatch(ms, a)].value)]

----------------------------------------------------------------------------
\* The parser object.

Axes == {"X", "Y", "Z", "E", "F"}

\* __init__
NewParser == [current_position |-> [a \in Axes |-> 0],
              absolute_positioning |-> TRUE,
              absolute_extrusion |-> TRUE,
              current_layer |-> 0,
              parsed_data |-> [metadata |-> <<>>, layers |-> <<>>]]

\* d[k] = v on a dict
SetItem(d, k, v) == [x \in DOMAIN d \cup {k} |-> IF x = k THEN v ELSE d[x]]

\* Mutant: declaring a layer starts its list afresh.
EnsureLayer_Reset(layers, k) == SetItem(layers, k, <<>>)

\* if k not in d: d[k] = []
EnsureLayer(layers, k) == IF k \in DOMAIN layers THEN layers ELSE SetItem(layers, k, <<>>)

\* Mutant: a layer number is accepted only when it is all digits.
LayerNumber_DigitsOnly(comment_line) == LET d == SplitSecond(comment_line, ":") IN IF AllDigits(d) THEN DigitsValue(d) ELSE 0

\* int(comment_line.split(":")[1]), 0 on ValueError
LayerNumber(comment_line) == LET r == int(SplitSecond(comment_line, ":")) IN IF r.ok THEN r.value ELSE 0

LayerMarker == <<";", "L", "A", "Y", "E", "R", ":">>

\* Mutant: any annotation that names LAYER after the marker sets the layer.
_parse_comment_Loose(s, comment_line) == IF Contains(comment_line, ":")
                                         THEN LET n == LayerNumber(comment_line)
                                              IN [s EXCEPT !.current_layer = n,
                                                           !.parsed_data.layers = EnsureLayer(@, n)]
                                         ELSE s

_parse_comment(s, comment_line) == IF startswith(comment_line, LayerMarker)
                                   THEN LET n == LayerNumber(comment_line)
                                        IN [s EXCEPT !.current_layer = n,
                                                     !.parsed_data.layers = EnsureLayer(@, n)]
                                   ELSE IF Contains(comment_line, ":")
                                   THEN LET body == lstrip(comment_line, {";"})
                                            key == strip(SplitFirst(body, ":"))
                                            value == strip(SplitRest(body, ":"))
                                        IN [s EXCEPT !.parsed_data.metadata = SetItem(@, key, value)]
                                   ELSE s

\* Mutant: absolute extrusion makes every axis absolute.
AxisAbsolute_AnyMode(s, axis) == s.absolute_positioning \/ s.absolute_extrusion

\* The test that chooses between assigning and adding a parameter.
AxisAbsolute(s, axis) == s.absolute_positioning \/ (axis = "E" /\ s.absolute_extrusion)

\* self.current_position["F"] = params["F"]
FeedApplied(position, params) == IF "F" \in DOMAIN params THEN [position EXCEPT !["F"] = params["F"]] ELSE position

\* new_position after the loop over X, Y, Z, E
Candidate(s, position, params) == [a \in Axes |-> IF a \in {"X", "Y", "Z", "E"} /\ a \in DOMAIN params
                                                  THEN IF AxisAbsolute(s, a) THEN params[a] ELSE position[a] + params[a]
                                                  ELSE position[a]]

\* Mutant: every motion command records a point.
Moved_Always(new_position, position) == TRUE

\* The test that decides whether a point is recorded.
Moved(new_position, position) == \/ new_position["X"] # position["X"]
                                 \/ new_position["Y"] # position["Y"]
                                 \/ new_position["Z"] # position["Z"]
                                 \/ new_position["E"] # position["E"]

\* The point dict built from new_position.
PointOf(new_position) == [a \in Axes |-> new_position[a]]

\* Mutant: the new point goes to the front of the list.
AppendPoint_Front(layers, k, point) == LET l == EnsureLayer(layers, k) IN [l EXCEPT ![k] = <<point>> \o @]

\* layers[current_layer].append(point), creating the list when absent
AppendPoint(layers, k, point) == LET l == EnsureLayer(layers, k) IN [l EXCEPT ![k] = Append(@, point)]

\* Mutant: the layer entry is made whether or not a point is recorded.
_process_movement_EagerLayer(s, command) == LET params == _parse_params(command)
                                                position == FeedApplied(s.current_position, params)
                                                new_position == Candidate(s, position, params)
                                            IN [s EXCEPT !.current_position = new_position,
                                                         !.parsed_data.layers = IF Moved(new_position, position)
                                                                                THEN AppendPoint(@, s.current_layer, PointOf(new_position))
                                                                                ELSE EnsureLayer(@, s.current_layer)]

_process_movement(s, command) == LET params == _parse_params(command)
                                     position == FeedApplied(s.current_position, params)
                                     new_position == Candidate(s, position, params)
                                 IN [s EXCEPT !.current_position = new_position,
                                              !.parsed_data.layers = IF Moved(new_position, position)
                                                                     THEN AppendPoint(@, s.current_layer, PointOf(new_position))
                                                                     ELSE @]

\* Mutant: G92 treated as an offset in relative mode.
_process_set_position_Offset(s, command) == LET params == _parse_params(command)
                                            IN [s EXCEPT !.current_position = [a \in Axes |-> IF a \notin DOMAIN params THEN @[a]
                                                                                              ELSE IF s.absolute_positioning THEN params[a]
                                                                                              ELSE @[a] + params[a]]]

_process_set_position(s, command) == LET params == _parse_params(command)
                                     IN [s EXCEPT !.current_position = [a \in Axes |-> IF a \in DOMAIN params THEN params[a] ELSE @[a]]]

\* Mutant: homing resets the extruder too.
Home_WithE(position) == [a \in Axes |-> IF a = "F" THEN position[a] ELSE 0]

\* self.current_position.update({"X": 0, "Y": 0, "Z": 0})
Home(position) == [a \in Axes |-> IF a \in {"X", "Y", "Z"} THEN 0 ELSE position[a]]

\* The `command == "G28"` test.
IsHome(command) == command = <<"G", "2", "8">>

\* Mutant: the prefix test ignores case.
IsMovement_AnyCase(command) == \/ startswith(command, <<"G", "0">>) \/ startswith(command, <<"G", "1">>)
                               \/ startswith(command, <<"g", "0">>) \/ startswith(command, <<"g", "1">>)

\* command.startswith("G0") or command.startswith("G1")
IsMovement(command) == startswith(command, <<"G", "0">>) \/ startswith(command, <<"G", "1">>)

\* command.startswith("G92")
IsSetPosition(command) == startswith(command, <<"G", "9", "2">>)

_process_command(s, command) == IF command = <<"G", "9", "0">> THEN [s EXCEPT !.absolute_positioning = TRUE]
                                ELSE IF command = <<"G", "9", "1">> THEN [s EXCEPT !.absolute_positioning = FALSE]
                                ELSE IF command = <<"M", "8", "2">> THEN [s EXCEPT !.absolute_extrusion = TRUE]
                                ELSE IF command = <<"M", "8", "3">> THEN [s EXCEPT !.absolute_extrusion = FALSE]
                                ELSE IF IsHome(command) THEN [s EXCEPT !.current_position = Home(@)]
                                ELSE IF IsMovement(command) THEN _process_movement(s, command)
                                ELSE IF IsSetPosition(command) THEN _process_set_position(s, command)
                                ELSE s

\* get_absolute_coordinates
get_absolute_coordinates(s) == s.parsed_data

----------------------------------------------------------------------------
\* parse_gcode, one line per step.

\* The three ways the loop body treats a line.
IsBlank(line) == strip(line) = <<>>

IsComment(line) == startswith(strip(line), <<";">>)

\* Mutant: the trailing comment stays on the command.
CommandOf_Keep(line) == strip(line)

\* line.split(";")[0].strip()
CommandOf(line) == strip(SplitFirst(strip(line), ";"))

\* `not gcode`, for the text whose lines are ls
IsEmptyText(ls) == ls = << <<>> >>

\* The handler of `line` raises because of what the line says: the layer
\* annotation has no second segment for split(":")[1] (an IndexError, which
\* `except ValueError` lets through), or a command that reaches _parse_params
\* holds a numeral float() rejects.  Either is raised before the handler has
\* assigned anything.
ContentFails(line) == IF IsBlank(line) THEN FALSE
                      ELSE IF IsComment(line) THEN startswith(strip(line), LayerMarker) /\ ~Contains(strip(line), ":")
                      ELSE LET command == CommandOf(line)
                           IN (IsMovement(command) \/ IsSetPosition(command)) /\ FloatFails(command)

\* The loop body: what handling one line does to the parser.
HandleLine(s, line) == IF IsBlank(line) THEN s
                       ELSE IF IsComment(line) THEN _parse_comment(s, strip(line))
                       ELSE IF CommandOf(line) # <<>> THEN _process_command(s, CommandOf(line))
                       ELSE s

\* The parser after the loop has handled the lines ls in order.
RECURSIVE Run(_, _)
Run(s, ls) == IF ls = <<>> THEN s ELSE Run(HandleLine(s, Head(ls)), Tail(ls))

Init == /\ self = NewParser
        /\ lines = <<>>
        /\ line_num = 0
        /\ pc = "new"
        /\ err = Nothing
        /\ coordinates = Nothing

\* parse_gcode("") raises ValueError before any line is read.
ParseGcodeEmpty == /\ pc = "new"
                   /\ pc' = "ValueError"
                   /\ UNCHANGED <<self, lines, line_num, err, coordinates>>

\* The loop reads the next line of the text.
ReadLine(line) == /\ pc \in {"new", "parsing"}
                  /\ line_num < MaxLines
                  /\ lines' = Append(lines, line)
                  /\ line_num' = line_num + 1
                  /\ pc' = "parsing"
                  /\ UNCHANGED <<err, coordinates>>

\* The handler raised on `line`: the except clause turns it into a RuntimeError
\* with the line number and the value of the local `line`, and the loop ends.
FailLine(line, text) == /\ pc \in {"new", "parsing"}
                        /\ line_num < MaxLines
                        /\ lines' = Append(lines, line)
                        /\ line_num' = line_num + 1
                        /\ pc' = "RuntimeError"
                        /\ err' = <<[line_num |-> line_num + 1, line |-> text]>>
                        /\ UNCHANGED <<self, coordinates>>

BlankLine(Text) == \E line \in Text : /\ IsBlank(line)
                                      /\ ReadLine(line)
                                      /\ UNCHANGED self

CommentLine(Text) == \E line \in Text : /\ ~IsBlank(line)
                                        /\ IsComment(line)
                                        /\ IF ContentFails(line) THEN FailLine(line, strip(line))
                                           ELSE /\ ReadLine(line)
                                                /\ self' = _parse_comment(self, strip(line))

CommandLine(Text) == \E line \in Text : /\ ~IsBlank(line)
                                        /\ ~IsComment(line)
                                        /\ IF ContentFails(line) THEN FailLine(line, CommandOf(line))
                                           ELSE /\ ReadLine(line)
                                                /\ self' = IF CommandOf(line) # <<>> THEN _process_command(self, CommandOf(line)) ELSE self

\* The text ends and parse_gcode returns.  One empty line is the empty text,
\* which never reaches the loop.
ParseGcodeReturn == /\ pc = "parsing"
                    /\ ~IsEmptyText(lines)
                    /\ pc' = "returned"
                    /\ UNCHANGED <<self, lines, line_num, err, coordinates>>

\* The caller reads the result once the call is over, as main() does.  The method
\* returns self.parsed_data whether parse_gcode returned or raised.
GetAbsoluteCoordinates == /\ pc \in {"returned", "ValueError", "RuntimeError"}
                          /\ coordinates' = <<get_absolute_coordinates(self)>>
                          /\ UNCHANGED <<self, lines, line_num, pc, err>>

\* What `except Exception` can catch while the loop body handles `line`: an
\* exception raised inside the try block by something other than the line's
\* content (a MemoryError from one of the allocations, an internal contract
\* violation).  Each outcome is the value the local `line` holds where the
\* exception is raised, and the parser as the handler left it:
\*   in line.strip(): the line as read;
\*   in _parse_comment, or in line.split(";"): the stripped line;
\*   in _parse_comment after current_layer is assigned: the same, one field written;
\*   in _process_command: the command without its comment;
\*   in _process_movement after F is assigned: the same, F written.
Raises(s, line) == LET stripped == strip(line)
                       command == CommandOf(line)
                   IN {[line |-> line, self |-> s]}
                      \cup (IF IsBlank(line) THEN {} ELSE {[line |-> stripped, self |-> s]})
                      \cup (IF ~IsBlank(line) /\ IsComment(line) /\ startswith(stripped, LayerMarker)
                            THEN {[line |-> stripped, self |-> [s EXCEPT !.current_layer = LayerNumber(stripped)]]}
                            ELSE {})
                      \cup (IF ~IsBlank(line) /\ ~IsComment(line) /\ command # <<>>
                            THEN {[line |-> command, self |-> s]}
                            ELSE {})
                      \cup (IF ~IsBlank(line) /\ ~IsComment(line) /\ IsMovement(command)
                            THEN {[line |-> command,
                                   self |-> [s EXCEPT !.current_position = FeedApplied(@, _parse_params(command))]]}
                            ELSE {})

\* raise RuntimeError(f"Error in parsing line {line_num}: {line}...")
LineRaises(Text) == \E line \in Text : \E r \in Raises(self, line) :
                        /\ pc \in {"new", "parsing"}
                        /\ line_num < MaxLines
                        /\ lines' = Append(lines, line)
                        /\ line_num' = line_num + 1
                        /\ self' = r.self
                        /\ err' = <<[line_num |-> line_num + 1, line |-> r.line]>>
                        /\ pc' = "RuntimeError"
                        /\ UNCHANGED coordinates

Step(Text) == \/ ParseGcodeEmpty
              \/ BlankLine(Text)
              \/ CommentLine(Text)
              \/ CommandLine(Text)
              \/ ParseGcodeReturn
              \/ GetAbsoluteCoordinates

----------------------------------------------------------------------------
\* Input lines, as gcode.split("\n") yields them.

\* (the empty line)
Line_Blank == <<>>

\*  <TAB>
Line_Spaces == <<" ", "\t">>

\* ;LAYER:3
Line_Layer3 == <<";", "L", "A", "Y", "E", "R", ":", "3">>

\* ;LAYER:-1
Line_LayerNeg1 == <<";", "L", "A", "Y", "E", "R", ":", "-", "1">>

\* ;LAYER:abc
Line_LayerAbc == <<";", "L", "A", "Y", "E", "R", ":", "a", "b", "c">>

\* ; note
Line_Note == <<";", " ", "n", "o", "t", "e">>

\* G90
Line_G90 == <<"G", "9", "0">>

\* G91
Line_G91 == <<"G", "9", "1">>

\* M82
Line_M82 == <<"M", "8", "2">>

\* M83
Line_M83 == <<"M", "8", "3">>

\* G28
Line_G28 == <<"G", "2", "8">>

\* G28 X0
Line_G28_X0 == <<"G", "2", "8", " ", "X", "0">>

\* G1 X5
Line_G1_X5 == <<"G", "1", " ", "X", "5">>

\* G1 X10
Line_G1_X10 == <<"G", "1", " ", "X", "1", "0">>

\* G1 X10 E1
Line_G1_X10_E1 == <<"G", "1", " ", "X", "1", "0", " ", "E", "1">>

\* G1 F1200
Line_G1_F1200 == <<"G", "1", " ", "F", "1", "2", "0", "0">>

\* G1 F1500
Line_G1_F1500 == <<"G", "1", " ", "F", "1", "5", "0", "0">>

\* G1 X0 Y0 Z0
Line_G1_X0_Y0_Z0 == <<"G", "1", " ", "X", "0", " ", "Y", "0", " ", "Z", "0">>

\* G1 X1 Y2 Z3 E4 F5
Line_G1_XYZEF == <<"G", "1", " ", "X", "1", " ", "Y", "2", " ", "Z", "3", " ", "E", "4", " ", "F", "5">>

\*  G0 Y-2.5 E1 F1200 ; travel
Line_G0_Travel == <<" ", "G", "0", " ", "Y", "-", "2", ".", "5", " ", "E", "1", " ", "F", "1", "2", "0", "0", " ", ";", " ", "t", "r", "a", "v", "e", "l">>

\* G1 X1 ;LAYER:5
Line_G1_X1_Inline == <<"G", "1", " ", "X", "1", " ", ";", "L", "A", "Y", "E", "R", ":", "5">>

\* G92 X0 Y0
Line_G92_X0_Y0 == <<"G", "9", "2", " ", "X", "0", " ", "Y", "0">>

\* G92 X1 E2 F3
Line_G92_X1_E2_F3 == <<"G", "9", "2", " ", "X", "1", " ", "E", "2", " ", "F", "3">>


\* ;LAYER:
Line_LayerEmpty == <<";", "L", "A", "Y", "E", "R", ":">>

\* ;LAYER:0
Line_Layer0 == <<";", "L", "A", "Y", "E", "R", ":", "0">>

\* ;
Line_Semicolon == <<";">>

\* G1 X1.
Line_G1_XDot == <<"G", "1", " ", "X", "1", ".">>

\* G1 X+.5 Y-
Line_G1_XPlus_YMinus == <<"G", "1", " ", "X", "+", ".", "5", " ", "Y", "-">>

\* G92 E. F-
Line_G92_EDot == <<"G", "9", "2", " ", "E", ".", " ", "F", "-">>

\* ;LAYER:3:x
Line_Layer3x == <<";", "L", "A", "Y", "E", "R", ":", "3", ":", "x">>

\* ;slicer: Cura 5.9
Line_MetaSlicer == <<";", "s", "l", "i", "c", "e", "r", ":", " ", "C", "u", "r", "a", " ", "5", ".", "9">>

\* ;TIME:1:30
Line_MetaTime == <<";", "T", "I", "M", "E", ":", "1", ":", "3", "0">>

\* ; TIME : 2 
Line_MetaTime2 == <<";", " ", "T", "I", "M", "E", " ", ":", " ", "2", " ">>

\* M104 S200
Line_M104 == <<"M", "1", "0", "4", " ", "S", "2", "0", "0">>

\* g1 X5
Line_g1_X5 == <<"g", "1", " ", "X", "5">>

\* G90 ; abs
Line_G90_Abs == <<"G", "9", "0", " ", ";", " ", "a", "b", "s">>

\* G1 X5 ;LAYER:2
Line_G1_X5_Layer2 == <<"G", "1", " ", "X", "5", " ", ";", "L", "A", "Y", "E", "R", ":", "2">>

\* G1 Y2 ;t: 1
Line_G1_Y2_Meta == <<"G", "1", " ", "Y", "2", " ", ";", "t", ":", " ", "1">>

\* G1 X1 X2
Line_G1_X1_X2 == <<"G", "1", " ", "X", "1", " ", "X", "2">>

\* G1 X 10
Line_G1_X_10 == <<"G", "1", " ", "X", " ", "1", "0">>

\* G1 X
Line_G1_X == <<"G", "1", " ", "X">>

\* G1 S5
Line_G1_S5 == <<"G", "1", " ", "S", "5">>

\* G92 X1 X2
Line_G92_X1_X2 == <<"G", "9", "2", " ", "X", "1", " ", "X", "2">>

\* The lines the texts of each specification are drawn from.
MoveText == {Line_Blank, Line_Layer3, Line_G91, Line_M83, Line_G1_X5, Line_G1_X10_E1,
             Line_G1_F1200, Line_G1_F1500, Line_G0_Travel}

HomeText == {Line_Blank, Line_Note, Line_G91, Line_M83, Line_G28, Line_G28_X0, Line_G1_XYZEF,
             Line_G1_X0_Y0_Z0}

SetText == {Line_Blank, Line_Note, Line_G91, Line_M83, Line_G1_XYZEF, Line_G1_X10,
            Line_G92_X0_Y0, Line_G92_X1_E2_F3}

FaultText == {Line_Blank, Line_Layer3, Line_G1_X5, Line_G1_F1500, Line_G0_Travel}

LayerText == {Line_Blank, Line_Spaces, Line_Layer3, Line_LayerNeg1, Line_LayerAbc, Line_G91,
              Line_G1_X5, Line_G1_F1500, Line_G1_X1_Inline}

LayerParseText == {Line_Blank, Line_Layer3, Line_LayerAbc, Line_LayerEmpty, Line_Layer3x, Line_G1_X5}

MetaText == {Line_Blank, Line_Layer3, Line_Note, Line_MetaSlicer, Line_MetaTime, Line_MetaTime2,
             Line_G91, Line_G1_X5}

ModeText == {Line_Blank, Line_Layer3, Line_MetaTime, Line_G90, Line_G91, Line_M82, Line_M83,
             Line_G1_X10_E1, Line_g1_X5, Line_M104}

FrameText == {Line_Blank, Line_Layer3, Line_MetaTime, Line_G91, Line_M83,
              Line_G28, Line_G1_X1_Inline, Line_G92_X1_E2_F3, Line_M104}

ParamText == {Line_Blank, Line_Note, Line_G91, Line_G1_X5, Line_G1_X1_X2, Line_G1_X_10, Line_G1_X,
              Line_G1_S5, Line_G92_X1_X2}

InlineText == {Line_Blank, Line_Spaces, Line_Layer3, Line_G91, Line_G90_Abs, Line_G1_X5_Layer2,
               Line_G1_Y2_Meta, Line_G0_Travel}

RedeclareText == {Line_Blank, Line_Layer0, Line_Layer3, Line_G91, Line_G1_X5, Line_G1_X10}

ContentText == {Line_Blank, Line_LayerEmpty, Line_LayerAbc, Line_Semicolon, Line_G1_X, Line_G1_XDot,
                Line_G1_XPlus_YMinus, Line_G92_EDot, Line_M104}

ReuseText == {Line_Blank, Line_Layer3, Line_G91, Line_G1_X5}

Spec == Init /\ [][Step(MoveText)]_vars

SpecHome == Init /\ [][Step(HomeText)]_vars

SpecSet == Init /\ [][Step(SetText)]_vars

SpecFault == Init /\ [][Step(FaultText) \/ LineRaises(FaultText)]_vars

SpecLayer == Init /\ [][Step(LayerText)]_vars

SpecRedeclare == Init /\ [][Step(RedeclareText)]_vars

SpecContent == Init /\ [][Step(ContentText)]_vars

SpecLayerParse == Init /\ [][Step(LayerParseText)]_vars

SpecMeta == Init /\ [][Step(MetaText)]_vars

SpecModes == Init /\ [][Step(ModeText)]_vars

SpecFrame == Init /\ [][Step(FrameText)]_vars

SpecParams == Init /\ [][Step(ParamText)]_vars

SpecInline == Init /\ [][Step(InlineText)]_vars

\* A second parse_gcode call on an instance that an earlier call has used:
\* parse_gcode resets no field, so the call starts from what the earlier text left.
EarlierTexts == {<<a>> : a \in ReuseText \ {Line_Blank}} \cup {<<a, b>> : a, b \in ReuseText}

InitReuse == /\ \E earlier \in EarlierTexts : self = Run(NewParser, earlier)
             /\ lines = <<>>
             /\ line_num = 0
             /\ pc = "new"
             /\ err = Nothing
             /\ coordinates = Nothing

SpecReuse == InitReuse /\ [][Step(ReuseText)]_vars

----------------------------------------------------------------------------
\* Properties.  A step that handles a line appends it to `lines`; the line it
\* handles is lines'[line_num'], and the unprimed variables are the state
\* before the line.

HandlesLine == lines' # lines /\ pc' = "parsing"

\* The line is dispatched to _process_movement.
IsMotionLine(line) == ~IsBlank(line) /\ ~IsComment(line) /\ IsMovement(CommandOf(line))

\* The parameters the line carries.
ParamsOfLine(line) == _parse_params(CommandOf(line))

\* layers with `point` added at the end of the sequence under key k, and nothing else changed.
OnlyAppended(old, new, k, point) == /\ DOMAIN new = DOMAIN old \cup {k}
                                    /\ new[k] = Append(IF k \in DOMAIN old THEN old[k] ELSE <<>>, point)
                                    /\ \A j \in DOMAIN old \ {k} : new[j] = old[j]

\* C1: a G0/G1 command appends a Point to layers[current_layer] if and only if
\* the position it commits differs from the position before it in X, Y, Z or
\* E; F is set from the line's F parameter whether or not a Point is appended;
\* and the appended Point is the committed position, F included.
C1_PointIffMoved == [][(HandlesLine /\ IsMotionLine(lines'[line_num'])) =>
                         LET before == self.current_position
                             after == self'.current_position
                             params == ParamsOfLine(lines'[line_num'])
                             old == self.parsed_data.layers
                             new == self'.parsed_data.layers
                             differs == \E a \in {"X", "Y", "Z", "E"} : after[a] # before[a]
                         IN /\ after["F"] = IF "F" \in DOMAIN params THEN params["F"] ELSE before["F"]
                            /\ differs => OnlyAppended(old, new, self.current_layer, after)
                            /\ ~differs => new = old]_vars

\* `G1 F1200`, `G1 F1500`, `G1 X5`: the two F-only commands left no Point and
\* F = 1500, and the one Point recorded carries that F.
C1_Witness == /\ lines = <<Line_G1_F1200, Line_G1_F1500, Line_G1_X5>>
              /\ self.parsed_data.layers = (0 :> <<[X |-> 50, Y |-> 0, Z |-> 0, E |-> 0, F |-> 15000]>>)
              /\ self.current_position["F"] = 15000

\* C2: in a motion command an E parameter is added to the current E whenever
\* extrusion_mode is Relative, whatever positioning_mode is (and assigned when
\* extrusion_mode is Absolute).
C2_EFollowsExtrusionMode == [][(HandlesLine /\ IsMotionLine(lines'[line_num'])
                                  /\ "E" \in DOMAIN ParamsOfLine(lines'[line_num'])) =>
                                 self'.current_position["E"] =
                                    IF self.absolute_extrusion
                                    THEN ParamsOfLine(lines'[line_num'])["E"]
                                    ELSE self.current_position["E"] + ParamsOfLine(lines'[line_num'])["E"]]_vars

\* C3: each of X, Y, Z present in a motion command becomes the parameter when
\* positioning_mode is Absolute and the stored value plus the parameter when it
\* is Relative, whatever extrusion_mode is; an axis that is absent keeps its value.
C3_PositionAbsolute == [][(HandlesLine /\ IsMotionLine(lines'[line_num'])) =>
                            LET params == ParamsOfLine(lines'[line_num'])
                            IN \A a \in {"X", "Y", "Z"} :
                                 self'.current_position[a] =
                                    IF a \notin DOMAIN params THEN self.current_position[a]
                                    ELSE IF self.absolute_positioning THEN params[a]
                                    ELSE self.current_position[a] + params[a]]_vars

\* `G91`, `M83`, `G1 X5`, `G1 X5`: two Points, X = 5 and X = 10, with extrusion relative too.
C3_Witness == /\ lines = <<Line_G91, Line_M83, Line_G1_X5, Line_G1_X5>>
              /\ ~self.absolute_positioning /\ ~self.absolute_extrusion
              /\ self.parsed_data.layers = (0 :> <<[X |-> 50, Y |-> 0, Z |-> 0, E |-> 0, F |-> 0],
                                                   [X |-> 100, Y |-> 0, Z |-> 0, E |-> 0, F |-> 0]>>)

\* C4: a call that returns normally was given a text with some content.
C4_NoContentFails == pc = "returned" => \E i \in 1..Len(lines) : ~IsBlank(lines[i])

\* C5: a RuntimeError carries the 1-based index of the line that failed,
\* counted over every line of the text, and that line's text.
C5_ErrorCarriesLine == pc = "RuntimeError" => /\ err[1].line_num = Len(lines)
                                              /\ err[1].line = lines[Len(lines)]

\* C6: after a call that failed at some line, the caller obtains none of what
\* the lines before it accumulated, not through get_absolute_coordinates either.
C6_NoPartialResult == (pc = "RuntimeError" /\ coordinates # Nothing) => coordinates = <<NewParser.parsed_data>>

\* The line is exactly the command G28 (after trimming and comment removal).
IsHomeLine(line) == ~IsBlank(line) /\ ~IsComment(line) /\ CommandOf(line) = <<"G", "2", "8">>

\* A motion command to X0 Y0 Z0: X, Y and Z given as 0 and no E.
IsMotionToOrigin(line) == /\ IsMotionLine(line)
                          /\ {"X", "Y", "Z"} \subseteq DOMAIN ParamsOfLine(line)
                          /\ "E" \notin DOMAIN ParamsOfLine(line)
                          /\ \A a \in {"X", "Y", "Z"} : ParamsOfLine(line)[a] = 0

\* C7: G28 sets X, Y, Z to 0 and changes nothing else (E, F, both modes,
\* current_layer, metadata, layers); and a motion command to X0 Y0 Z0 that
\* follows it in Absolute mode appends no Point.
C7_HomeResetsXYZ == [][/\ (HandlesLine /\ IsHomeLine(lines'[line_num'])) =>
                            self' = [self EXCEPT !.current_position =
                                        [a \in Axes |-> IF a \in {"E", "F"} THEN self.current_position[a] ELSE 0]]
                       /\ (HandlesLine /\ line_num >= 1 /\ IsHomeLine(lines[line_num])
                             /\ self.absolute_positioning /\ IsMotionToOrigin(lines'[line_num'])) =>
                            self'.parsed_data = self.parsed_data]_vars

\* `G1 X1 Y2 Z3 E4 F5`, `G28`, `G1 X0 Y0 Z0`: one Point, from the first line;
\* X, Y, Z are 0 and E, F are kept.
C7_Witness == /\ lines = <<Line_G1_XYZEF, Line_G28, Line_G1_X0_Y0_Z0>>
              /\ self.current_position = [X |-> 0, Y |-> 0, Z |-> 0, E |-> 40, F |-> 50]
              /\ self.parsed_data.layers = (0 :> <<[X |-> 10, Y |-> 20, Z |-> 30, E |-> 40, F |-> 50]>>)

\* C8: a G28 line with axis arguments homes X, Y and Z like a bare G28.
C8_HomeWithArguments == [][(HandlesLine /\ ~IsBlank(lines'[line_num']) /\ ~IsComment(lines'[line_num'])
                              /\ startswith(CommandOf(lines'[line_num']), <<"G", "2", "8">>)) =>
                             \A a \in {"X", "Y", "Z"} : self'.current_position[a] = 0]_vars

\* The line is dispatched to _process_set_position.
IsSetLine(line) == ~IsBlank(line) /\ ~IsComment(line) /\ IsSetPosition(CommandOf(line))

\* C9: G92 assigns the parsed value to exactly the axes among X, Y, Z, E, F
\* that it names, in either mode, and changes nothing else; and `G1 X10` right
\* after `G92 X0 Y0` in Absolute mode appends exactly one Point, X = 10, Y = 0.
C9_SetPositionOverwrites == [][/\ (HandlesLine /\ IsSetLine(lines'[line_num'])) =>
                                    LET params == ParamsOfLine(lines'[line_num'])
                                    IN /\ \A a \in Axes : self'.current_position[a] =
                                             IF a \in DOMAIN params THEN params[a] ELSE self.current_position[a]
                                       /\ self'.absolute_positioning = self.absolute_positioning
                                       /\ self'.absolute_extrusion = self.absolute_extrusion
                                       /\ self'.current_layer = self.current_layer
                                       /\ self'.parsed_data = self.parsed_data
                               /\ (HandlesLine /\ line_num >= 1 /\ lines[line_num] = Line_G92_X0_Y0
                                     /\ lines'[line_num'] = Line_G1_X10 /\ self.absolute_positioning) =>
                                    /\ OnlyAppended(self.parsed_data.layers, self'.parsed_data.layers,
                                                    self.current_layer, self'.current_position)
                                    /\ self'.current_position["X"] = 100
                                    /\ self'.current_position["Y"] = 0]_vars

\* `G1 X1 Y2 Z3 E4 F5`, `G92 X0 Y0`, `G1 X10`: the second Point is X = 10, Y = 0.
C9_Witness == /\ lines = <<Line_G1_XYZEF, Line_G92_X0_Y0, Line_G1_X10>>
              /\ self.parsed_data.layers = (0 :> <<[X |-> 10, Y |-> 20, Z |-> 30, E |-> 40, F |-> 50],
                                                   [X |-> 100, Y |-> 0, Z |-> 30, E |-> 40, F |-> 50]>>)

\* The line is a layer annotation.
IsLayerLine(line) == startswith(strip(line), LayerMarker)

\* Index of the last layer annotation among ls, 0 if there is none.
RECURSIVE LastLayerLine(_)
LastLayerLine(ls) == IF ls = <<>> THEN 0
                     ELSE IF IsLayerLine(ls[Len(ls)]) THEN Len(ls)
                     ELSE LastLayerLine(SubSeq(ls, 1, Len(ls) - 1))

\* The integer a layer annotation names: everything after `;LAYER:`.
LayerNamed(line) == int(SubSeq(strip(line), Len(LayerMarker) + 1, Len(strip(line))))

\* C10: while the most recent layer annotation is `;LAYER:n` with integer n,
\* a line that is not a layer annotation changes no layer but n, and a Point
\* it emits is appended under n.
C10_PointsUnderAnnotatedLayer == [][(/\ HandlesLine
                                     /\ ~IsLayerLine(lines'[line_num'])
                                     /\ LastLayerLine(lines) > 0
                                     /\ LayerNamed(lines[LastLayerLine(lines)]).ok) =>
                                      LET n == LayerNamed(lines[LastLayerLine(lines)]).value
                                          old == self.parsed_data.layers
                                          new == self'.parsed_data.layers
                                      IN \/ new = old
                                         \/ OnlyAppended(old, new, n, self'.current_position)]_vars

\* `;LAYER:-1`, `G1 X5`, `;LAYER:3`, `G1 X1 ;LAYER:5`: one Point under -1, one under 3.
C10_Witness == /\ lines = <<Line_LayerNeg1, Line_G1_X5, Line_Layer3, Line_G1_X1_Inline>>
               /\ self.parsed_data.layers = ((0 - 1) :> <<[X |-> 50, Y |-> 0, Z |-> 0, E |-> 0, F |-> 0]>>)
                                            @@ (3 :> <<[X |-> 10, Y |-> 0, Z |-> 0, E |-> 0, F |-> 0]>>)

\* C11: a layer annotation whose remainder after `;LAYER:` is not an integer
\* resets current_layer to 0 (an integer remainder becomes current_layer);
\* the call goes on, and layers has an entry for current_layer afterwards.
C11_UnparsableLayerResets == [][(HandlesLine /\ IsLayerLine(lines'[line_num'])) =>
                                  /\ self'.current_layer = IF LayerNamed(lines'[line_num']).ok
                                                           THEN LayerNamed(lines'[line_num']).value
                                                           ELSE 0
                                  /\ self'.current_layer \in DOMAIN self'.parsed_data.layers]_vars

\* The line is an annotation that is not a layer marker.
IsPlainAnnotation(line) == ~IsBlank(line) /\ IsComment(line) /\ ~IsLayerLine(line)

\* The annotation without its leading comment markers.
AnnotationBody(line) == SubSeq(strip(line), SkipFwd(strip(line), 1, {";"}), Len(strip(line)))

\* The trimmed text before, and after, the first colon of the annotation.
AnnotationKey(line) == strip(SubSeq(AnnotationBody(line), 1, Find(AnnotationBody(line), ":", 1) - 1))

AnnotationValue(line) == strip(SubSeq(AnnotationBody(line), Find(AnnotationBody(line), ":", 1) + 1,
                                      Len(AnnotationBody(line))))

\* C12: a non-layer annotation with a colon stores metadata[key] = value, key
\* and value being the trimmed texts before and after its first colon,
\* replacing an earlier value of the key; one without a colon changes nothing;
\* neither changes position, modes, current_layer or layers.
C12_MetadataStored == [][(HandlesLine /\ IsPlainAnnotation(lines'[line_num'])) =>
                           LET line == lines'[line_num']
                               old == self.parsed_data.metadata
                               new == self'.parsed_data.metadata
                           IN /\ self'.current_position = self.current_position
                              /\ self'.absolute_positioning = self.absolute_positioning
                              /\ self'.absolute_extrusion = self.absolute_extrusion
                              /\ self'.current_layer = self.current_layer
                              /\ self'.parsed_data.layers = self.parsed_data.layers
                              /\ IF \E i \in 1..Len(line) : line[i] = ":"
                                 THEN /\ DOMAIN new = DOMAIN old \cup {AnnotationKey(line)}
                                      /\ new[AnnotationKey(line)] = AnnotationValue(line)
                                      /\ \A k \in DOMAIN old \ {AnnotationKey(line)} : new[k] = old[k]
                                 ELSE new = old]_vars

\* `; TIME : 2 `, `;TIME:1:30`, `;slicer: Cura 5.9`, `; note`: TIME was
\* replaced and keeps its second colon, the note stored nothing.
C12_Witness == /\ lines = <<Line_MetaTime2, Line_MetaTime, Line_MetaSlicer, Line_Note>>
               /\ self.parsed_data.metadata = (<<"T", "I", "M", "E">> :> <<"1", ":", "3", "0">>) @@ (<<"s", "l", "i", "c", "e", "r">> :> <<"C", "u", "r", "a", " ", "5", ".", "9">>)
               /\ self.parsed_data.layers = <<>>

\* C14: the result of a parse_gcode call depends only on the text passed to
\* it: when the call returns, parsed_data is what a fresh parser makes of that text.
C14_SecondCallAsFresh == pc = "returned" => self.parsed_data = Run(NewParser, lines).parsed_data

\* C15: current_layer changes only in a step that handles a layer annotation;
\* commands (with or without an inline comment), other annotations, blank
\* lines, the return and the read of the result leave it unchanged.
C15_LayerOnlyByAnnotation == [][self'.current_layer # self.current_layer =>
                                  (HandlesLine /\ IsLayerLine(lines'[line_num']))]_vars

\* `;LAYER:3`, `G91`, `G1 X1 ;LAYER:5`, `G92 X1 E2 F3`: still layer 3, and
\* the Point went under 3.
C15_Witness == /\ lines = <<Line_Layer3, Line_G91, Line_G1_X1_Inline, Line_G92_X1_E2_F3>>
               /\ self.current_layer = 3
               /\ self.parsed_data.layers = (3 :> <<[X |-> 10, Y |-> 0, Z |-> 0, E |-> 0, F |-> 0]>>)

\* s is the beginning of t.
IsPrefix(s, t) == Len(s) <= Len(t) /\ SubSeq(t, 1, Len(s)) = s

\* C20: layer sequences only grow at the end: every step keeps every layer
\* key, and the sequence a key had is a prefix of the one it has afterwards,
\* so a recorded Point keeps its values and its index.
C20_LayersAppendOnly == [][\A k \in DOMAIN self.parsed_data.layers :
                              /\ k \in DOMAIN self'.parsed_data.layers
                              /\ IsPrefix(self.parsed_data.layers[k], self'.parsed_data.layers[k])]_vars

\* `G91`, `G1 X1 ;LAYER:5`, `G92 X1 E2 F3`, `G1 X1 ;LAYER:5`: the first Point
\* is as recorded after G92 moved the origin and a second Point followed it.
C20_Witness == /\ lines = <<Line_G91, Line_G1_X1_Inline, Line_G92_X1_E2_F3, Line_G1_X1_Inline>>
               /\ self.parsed_data.layers = (0 :> <<[X |-> 10, Y |-> 0, Z |-> 0, E |-> 0, F |-> 0],
                                                    [X |-> 20, Y |-> 0, Z |-> 0, E |-> 20, F |-> 30]>>)

\* Commands of ModeText that match no row of the dispatch table.
UnrecognizedLines == {Line_g1_X5, Line_M104}

\* C16: G90, G91, M82 and M83 each set their own mode flag and nothing else
\* (the other mode, position, current_layer, metadata and layers stay), and a
\* command matching no row of the dispatch table, `g1 X5` or `M104 S200`,
\* changes no part of the state.
C16_ModeCommandsFrame == [][HandlesLine =>
                              LET line == lines'[line_num']
                              IN /\ line = Line_G90 => self' = [self EXCEPT !.absolute_positioning = TRUE]
                                 /\ line = Line_G91 => self' = [self EXCEPT !.absolute_positioning = FALSE]
                                 /\ line = Line_M82 => self' = [self EXCEPT !.absolute_extrusion = TRUE]
                                 /\ line = Line_M83 => self' = [self EXCEPT !.absolute_extrusion = FALSE]
                                 /\ line \in UnrecognizedLines => self' = self]_vars

\* `G1 X10 E1`, `G91`, `M83`, `g1 X5`: both modes relative, and the position
\* and the one Point are those of the first line.
C16_Witness == /\ lines = <<Line_G1_X10_E1, Line_G91, Line_M83, Line_g1_X5>>
               /\ ~self.absolute_positioning /\ ~self.absolute_extrusion
               /\ self.current_position = [X |-> 100, Y |-> 0, Z |-> 0, E |-> 10, F |-> 0]
               /\ self.current_layer = 0 /\ self.parsed_data.metadata = <<>>
               /\ self.parsed_data.layers = (0 :> <<[X |-> 100, Y |-> 0, Z |-> 0, E |-> 10, F |-> 0]>>)

\* Commands of ParamText whose text holds no axis letter of the position
\* immediately followed by a numeral.
NoParameterLines == {Line_G1_X_10, Line_G1_X, Line_G1_S5}

\* C17: of a repeated axis letter the last value counts: `G1 X1 X2` moves to
\* X = 2 in absolute mode and adds 2 in relative mode, `G92 X1 X2` sets X to
\* 2; `G1 X 10`, `G1 X` and `G1 S5` name no axis and change nothing.
C17_LastOccurrenceWins == [][HandlesLine =>
                               LET line == lines'[line_num']
                                   X == self.current_position.X
                               IN /\ line = Line_G1_X1_X2 =>
                                        self'.current_position = [self.current_position EXCEPT
                                                                    !.X = IF self.absolute_positioning THEN 20 ELSE X + 20]
                                  /\ line = Line_G92_X1_X2 =>
                                        self' = [self EXCEPT !.current_position.X = 20]
                                  /\ line \in NoParameterLines => self' = self]_vars

\* `G1 X1 X2`, `G91`, `G1 X1 X2`, `G1 X 10`: X is 2 + 2, with a Point at 2 and one at 4.
C17_Witness == /\ lines = <<Line_G1_X1_X2, Line_G91, Line_G1_X1_X2, Line_G1_X_10>>
               /\ self.current_position.X = 40
               /\ self.parsed_data.layers = (0 :> <<[X |-> 20, Y |-> 0, Z |-> 0, E |-> 0, F |-> 0],
                                                    [X |-> 40, Y |-> 0, Z |-> 0, E |-> 0, F |-> 0]>>)

\* The layer annotations of LayerText and the layer each makes current.
LayerSelected == (Line_Layer3 :> 3) @@ (Line_LayerNeg1 :> -1) @@ (Line_LayerAbc :> 0)

\* The layers made current by the annotations among ls.
AnnotatedLayers(ls) == {LayerSelected[ls[i]] : i \in {j \in 1..Len(ls) : ls[j] \in DOMAIN LayerSelected}}

\* C18: the keys of layers are the layers made current by an annotation
\* together with the layers that hold a Point: every annotated layer has an
\* entry, and an entry that no annotation made holds at least one Point. So
\* layer 0 has no entry before a Point or an annotation, an F-only command
\* makes none, and a declared layer never visited stays empty.
C18_LayerKeys == LET layers == self.parsed_data.layers
                 IN DOMAIN layers = AnnotatedLayers(lines) \cup {k \in DOMAIN layers : layers[k] # <<>>}

\* `G1 F1500`, `;LAYER:3`, `;LAYER:-1`, `G1 X5`: no entry for layer 0, layer
\* 3 declared and empty, the Point under -1.
C18_Witness == /\ lines = <<Line_G1_F1500, Line_Layer3, Line_LayerNeg1, Line_G1_X5>>
               /\ self.parsed_data.layers = (3 :> <<>>) @@ (-1 :> <<[X |-> 50, Y |-> 0, Z |-> 0, E |-> 0, F |-> 15000]>>)

\* `G1 Y2`
Bare_G1_Y2 == <<"G", "1", " ", "Y", "2">>

\* `G0 Y-2.5 E1 F1200`
Bare_G0_Travel == <<"G", "0", " ", "Y", "-", "2", ".", "5", " ", "E", "1", " ", "F", "1", "2", "0", "0">>

\* The command lines of InlineText that carry a trailing comment, each with
\* the same command written without it.
WithoutComment == (Line_G90_Abs :> Line_G90) @@ (Line_G1_X5_Layer2 :> Line_G1_X5) @@
                  (Line_G1_Y2_Meta :> Bare_G1_Y2) @@ (Line_G0_Travel :> Bare_G0_Travel)

\* C19: a command line with a trailing comment changes the state exactly as
\* the command alone does, the text after the marker sets no metadata and no
\* layer, and a line that is blank after trimming changes nothing.
C19_InlineCommentIgnored == [][HandlesLine =>
                                 LET line == lines'[line_num']
                                 IN /\ line \in DOMAIN WithoutComment =>
                                         /\ self' = HandleLine(self, WithoutComment[line])
                                         /\ self'.parsed_data.metadata = self.parsed_data.metadata
                                         /\ self'.current_layer = self.current_layer
                                         /\ DOMAIN self'.parsed_data.layers \subseteq DOMAIN self.parsed_data.layers \cup {self.current_layer}
                                    /\ line \in {Line_Blank, Line_Spaces} => self' = self]_vars

\* `G91`, `G90 ; abs`, `G1 X5 ;LAYER:2`, `G1 Y2 ;t: 1`: absolute again, both
\* Points under layer 0, no metadata.
C19_Witness == /\ lines = <<Line_G91, Line_G90_Abs, Line_G1_X5_Layer2, Line_G1_Y2_Meta>>
               /\ self.absolute_positioning /\ self.current_layer = 0
               /\ self.parsed_data.metadata = <<>>
               /\ self.parsed_data.layers = (0 :> <<[X |-> 50, Y |-> 0, Z |-> 0, E |-> 0, F |-> 0],
                                                    [X |-> 50, Y |-> 20, Z |-> 0, E |-> 0, F |-> 0]>>)

\* C21: a layer annotation leaves the sequence of every layer that already
\* has an entry as it is, the layer it names included, so the Points of a
\* later visit follow those of the earlier visit.
C21_RedeclareKeepsPoints == [][(HandlesLine /\ IsLayerLine(lines'[line_num'])) =>
                                 \A k \in DOMAIN self.parsed_data.layers :
                                    /\ k \in DOMAIN self'.parsed_data.layers
                                    /\ self'.parsed_data.layers[k] = self.parsed_data.layers[k]]_vars

\* `G1 X5`, `;LAYER:3`, `;LAYER:0`, `G1 X10`: layer 0 holds the Point of the
\* first visit and then the Point of the second.
C21_Witness == /\ lines = <<Line_G1_X5, Line_Layer3, Line_Layer0, Line_G1_X10>>
               /\ self.current_layer = 0
               /\ self.parsed_data.layers = (0 :> <<[X |-> 50, Y |-> 0, Z |-> 0, E |-> 0, F |-> 0],
                                                    [X |-> 100, Y |-> 0, Z |-> 0, E |-> 0, F |-> 0]>>) @@ (3 :> <<>>)

\* C22: whatever the lines say, no handler raises: the call is never in the
\* error state of a failed line, and every line read so far has been handled,
\* so that a call that returns has processed the whole text.
C22_NoLineContentFails == /\ pc # "RuntimeError" /\ err = Nothing
                          /\ \A i \in 1..Len(lines) : ~ContentFails(lines[i])
                          /\ pc \in {"parsing", "returned"} => (line_num = Len(lines) /\ self = Run(NewParser, lines))

\* `;LAYER:`, `G1 X+.5 Y-`, `G1 X1.`, `;`: the call returned, X went to 0.5
\* and then to 1, and the parts that are no numeral were passed over.
C22_Witness == /\ pc = "returned"
               /\ lines = <<Line_LayerEmpty, Line_G1_XPlus_YMinus, Line_G1_XDot, Line_Semicolon>>
               /\ self.current_position = [X |-> 10, Y |-> 0, Z |-> 0, E |-> 0, F |-> 0]
               /\ self.parsed_data.layers = (0 :> <<[X |-> 5, Y |-> 0, Z |-> 0, E |-> 0, F |-> 0],
                                                    [X |-> 10, Y |-> 0, Z |-> 0, E |-> 0, F |-> 0]>>)

====
